---------------------------- MODULE Spec2Model ----------------------------
(***************************************************************************)
(* A model of ActivityTracker (src/main.py): the tracking loop of          *)
(* start_tracking with the focus probe, the sqlite activity log, the       *)
(* duration aggregate and the session commands.                            *)
(*                                                                         *)
(* Text is a sequence of tokens (a token is a character or a run of        *)
(* characters that no operation of the program splits).  Time is counted   *)
(* in units of 0.3 s: time.time() reads the variable clock, and the loop's *)
(* two waits of 0.9 s are 3 units each.                                    *)
(***************************************************************************)
EXTENDS Integers, Sequences, FiniteSets, TLC

\* ------------------------------------------------------------------ bounds
\* The observation of the loop ends at MaxTime units (horizon).
MaxTime == 6
\* The longest the probe (NSWorkspace and osascript) takes, in units.
MaxProbeDelay == 1
\* The longest time between two consecutive time.time() reads, in units.
MaxSkew == 1
\* The longest the user takes to type the session label, in units.
MaxLabelWait == 2
\* The longest command line typed at the prompt, in tokens.
MaxLineLen == 1

\* ------------------------------------------------------- program constants
\* select.select([sys.stdin], [], [], 0.9): 0.9 s in units of 0.3 s
SelectTimeout == 3
\* time.sleep(0.9): 0.9 s in units of 0.3 s
SleepTime == 3
\* sorted_activities[:5]
TopN == 5
\* self.session_start_time = None
NoTime == -1

\* Python's None where a text is expected.
None == <<"<None>">>

\* bool(x) of a text or None.
Truthy(x) == x # None /\ x # <<>>

\* -------------------------------------------------------------------- text
Whitespace == {" ", "\n"}

RECURSIVE LStrip(_)
LStrip(s) ==
    IF s = <<>> THEN <<>>
    ELSE IF Head(s) \in Whitespace THEN LStrip(Tail(s)) ELSE s

RECURSIVE RStrip(_)
RStrip(s) ==
    IF s = <<>> THEN <<>>
    ELSE IF s[Len(s)] \in Whitespace THEN RStrip(SubSeq(s, 1, Len(s) - 1)) ELSE s

\* str.strip()
Strip(s) == RStrip(LStrip(s))

LowerTok(c) ==
    CASE c = "N" -> "n"
      [] c = "S" -> "s"
      [] c = "Q" -> "q"
      [] OTHER -> c

\* str.lower()
Lower(s) == [i \in 1..Len(s) |-> LowerTok(s[i])]

\* The index of the first token of s that is in set, 0 when there is none.
RECURSIVE FindFirst(_, _, _)
FindFirst(s, set, i) ==
    IF i > Len(s) THEN 0
    ELSE IF s[i] \in set THEN i ELSE FindFirst(s, set, i + 1)

\* s.split('|', 1)
Split1(s) ==
    LET i == FindFirst(s, {"|"}, 1)
    IN  IF i = 0 THEN <<s>>
        ELSE <<SubSeq(s, 1, i - 1), SubSeq(s, i + 1, Len(s))>>

\* urlparse(url).netloc: the text between the "//" that follows the scheme
\* and the next "/", "?" or "#"; empty when no "//" follows the scheme.
Netloc(url) ==
    LET c    == FindFirst(url, {":"}, 1)
        rest == IF c > 1 /\ FindFirst(url, {"/", "?", "#"}, 1) \notin 1..(c - 1)
                THEN SubSeq(url, c + 1, Len(url)) ELSE url
    IN  IF Len(rest) >= 2 /\ rest[1] = "/" /\ rest[2] = "/"
        THEN LET host == SubSeq(rest, 3, Len(rest))
                 e    == FindFirst(host, {"/", "?", "#"}, 1)
             IN  IF e = 0 THEN host ELSE SubSeq(host, 1, e - 1)
        ELSE <<>>

\* re.sub(r'^www\.', '', domain)
StripWww(domain) ==
    IF Len(domain) >= 2 /\ domain[1] = "www" /\ domain[2] = "."
    THEN SubSeq(domain, 3, Len(domain)) ELSE domain

extract_domain(url) == StripWww(Netloc(url))

\* activity_key = self.extract_domain(url) if url else app_name
activity_key(url, app) == IF Truthy(url) THEN extract_domain(url) ELSE app

\* ---------------------------------------------------------------- the probe
Browsers == {<<"Safari">>, <<"Google Chrome">>, <<"Firefox">>, <<"Brave Browser">>}

NoTitle == <<"No window title available">>

\* get_browser_info: the script's "url|title" split once at the bar.
get_browser_info(result) ==
    IF Truthy(result) THEN Split1(result) ELSE <<None, None>>

\* get_window_title
get_window_title(result) == IF Truthy(result) THEN result ELSE NoTitle

ProbeFailed == <<None, None, None>>

\* get_active_window_info: app is the active application's name (None when
\* the workspace gives none), result what osascript printed (None when it
\* failed).  Every exception raised on the way gives (None, None, None).
get_active_window_info(app, result) ==
    IF app = None THEN ProbeFailed
    ELSE IF app \in Browsers
    THEN LET pair == get_browser_info(result)
         IN  IF Len(pair) # 2 THEN ProbeFailed          \* ValueError: unpack
             ELSE IF pair[2] = None THEN ProbeFailed    \* None.strip()
             ELSE <<app, Strip(pair[2]), Strip(pair[1])>>
    ELSE <<app, get_window_title(result), None>>

\* ------------------------------------------------------------ the aggregate
\* activity_duration is a defaultdict(int): an insertion-ordered sequence of
\* entries [key, duration].
KeyIndex(ad, key) ==
    LET hits == {i \in 1..Len(ad) : ad[i].key = key}
    IN  IF hits = {} THEN 0 ELSE CHOOSE i \in hits : TRUE

\* self.activity_duration[activity_key] += delta  (a mutant: = delta)
record_duration_overwrite(ad, key, delta) ==
    LET i == KeyIndex(ad, key)
    IN  IF i = 0 THEN Append(ad, [key |-> key, duration |-> delta])
        ELSE [ad EXCEPT ![i].duration = delta]

\* A mutant of record_duration: what a delta has beyond one sleep is left
\* out, so that the time of the ticks without a sample is a gap.
record_duration_gap(ad, key, delta) ==
    LET i == KeyIndex(ad, key)
        d == IF delta > SleepTime THEN SleepTime ELSE delta
    IN  IF i = 0 THEN Append(ad, [key |-> key, duration |-> d])
        ELSE [ad EXCEPT ![i].duration = @ + d]

\* self.activity_duration[activity_key] += delta
record_duration(ad, key, delta) ==
    LET i == KeyIndex(ad, key)
    IN  IF i = 0 THEN Append(ad, [key |-> key, duration |-> 0 + delta])
        ELSE [ad EXCEPT ![i].duration = @ + delta]

\* sum(self.activity_duration.values())
RECURSIVE SumDurations(_)
SumDurations(ad) ==
    IF ad = <<>> THEN 0 ELSE Head(ad).duration + SumDurations(Tail(ad))

\* x put into the descending sequence s behind every entry that is not smaller
\* (a stable sort keeps equal entries in their first order).
RECURSIVE InsertDesc(_, _)
InsertDesc(s, x) ==
    IF s = <<>> THEN <<x>>
    ELSE IF Head(s).duration >= x.duration
         THEN <<Head(s)>> \o InsertDesc(Tail(s), x)
         ELSE <<x>> \o s

\* sorted(items, key=lambda x: x[1], reverse=True)
RECURSIVE SortDesc(_)
SortDesc(ad) ==
    IF ad = <<>> THEN <<>>
    ELSE InsertDesc(SortDesc(SubSeq(ad, 1, Len(ad) - 1)), ad[Len(ad)])

\* A mutant of FirstN: one entry too many.
FirstN_one_more(s, n) == SubSeq(s, 1, IF Len(s) < n + 1 THEN Len(s) ELSE n + 1)

\* sorted_activities[:5]
FirstN(s, n) == SubSeq(s, 1, IF Len(s) < n THEN Len(s) ELSE n)

\* (duration / total_time) * 100, kept as the exact fraction num / den.
Percentage(duration, total_time) == [num |-> duration * 100, den |-> total_time]

\* calculate_top_activities
calculate_top_activities(ad) ==
    LET total_time == SumDurations(ad)
        top_5      == FirstN(SortDesc(ad), TopN)
    IN  IF total_time = 0 THEN <<>>
        ELSE [i \in 1..Len(top_5) |->
                [activity   |-> top_5[i].key,
                 percentage |-> Percentage(top_5[i].duration, total_time)]]

\* ------------------------------------------------------------------- inputs
\* What the workspace names as the active application.
ActiveApps == {<<"Safari">>, <<"Terminal">>}

UrlPage == <<"https", ":", "/", "/", "www", ".", "example", ".", "com", "/", "page">>

UrlBlank == <<"about", ":", "blank">>

\* What osascript prints for a browser's front tab: "url|title", or a text
\* with no bar.
BrowserOutputs == {UrlPage \o <<"|", "T", "\n">>, UrlBlank \o <<"|", "T">>, <<"missing value">>}

\* What osascript prints for another application's front window.
TitleOutputs == {<<"T">>}

\* None: osascript failed.
ScriptOutputs(app) ==
    IF app \in Browsers THEN BrowserOutputs \cup {None} ELSE TitleOutputs

\* The session labels typed at "Enter new session name: ".
Labels == {<<>>, <<"work">>}

CommandTokens == {"n", "N", "s", "q", "x", " "}

\* The texts of at most n tokens.
RECURSIVE TextsUpTo(_)
TextsUpTo(n) ==
    IF n = 0 THEN {<<>>}
    ELSE LET shorter == TextsUpTo(n - 1)
         IN  shorter \cup {Append(t, c) : t \in shorter, c \in CommandTokens}

\* sys.stdin.readline(): a typed line with its newline, or nothing at the
\* end of the input.
InputLines == {Append(t, "\n") : t \in TextsUpTo(MaxLineLen)} \cup {<<>>}

\* ------------------------------------------------------- format_elapsed_time
\* The text f"{n}{unit}" of a count and its unit, as the pair it is made of.
Unit(n, unit) == <<n, unit>>

\* A mutant of Shown: a count of zero is shown too.
Shown_always(n, unit) == <<Unit(n, unit)>>

\* Lines 27-32: if n > 0: elapsed_time_parts.append(f"{n}{unit}").
Shown(n, unit) == IF n > 0 THEN <<Unit(n, unit)>> ELSE <<>>

\* format_elapsed_time, lines 21-36: the parts that ' '.join puts one space
\* apart, in their order.
format_elapsed_time(seconds) ==
    LET days == seconds \div 86400
        r1 == seconds % 86400
        hours == r1 \div 3600
        r2 == r1 % 3600
        minutes == r2 \div 60
        secs == r2 % 60
    IN  Shown(days, "d") \o Shown(hours, "h") \o Shown(minutes, "m")
          \o <<Unit(secs, "s")>>

\* ---------------------------------------------------------------- the state
VARIABLES
    pc,                  \* where start_tracking is
    clock,               \* what time.time() returns
    conn_open,           \* self.conn is open
    db,                  \* the committed rows of the table activities
    pending,             \* the rows inserted and not yet committed
    activity_duration,   \* self.activity_duration
    current_session,     \* self.current_session
    session_start_time,  \* self.session_start_time
    overall_start_time,  \* self.overall_start_time
    previous_time,       \* self.previous_time
    current_time,        \* start_tracking's current_time (whole seconds)
    app_name,            \* start_tracking's app_name
    window_title,        \* start_tracking's window_title
    url,                 \* start_tracking's url
    rlist,               \* start_tracking's rlist is not empty
    user_input,          \* start_tracking's user_input
    top_activities,      \* start_tracking's top_activities
    display_session,     \* the session the console shows (None: "No active session.")
    elapsed_time_overall,\* start_tracking's elapsed_time_overall (whole seconds)
    display_elapsed,     \* the "Tracking for" text the console shows
    waited,              \* how long this iteration's select call took
    exit_cause,          \* how the loop ended
    recorded,            \* history: the deltas added since the last reset
    reset_time,          \* history: the time of the last reset
    failed_ticks,        \* history: the ticks whose probe failed
    sessions_started,    \* history: the session starts completed
    stopped,             \* history: 's' was read since the latest session start
    skew_lost,           \* history: the time between paired clock reads since the reset
    apps,                \* environment: the applications that can be frontmost
    horizon              \* environment: the time the observation ends at

vars == <<pc, clock, conn_open, db, pending, activity_duration, current_session,
          session_start_time, overall_start_time, previous_time, current_time,
          app_name, window_title, url, rlist, user_input, top_activities,
          display_session, elapsed_time_overall, display_elapsed, waited,
          exit_cause, recorded, reset_time, failed_ticks, sessions_started,
          stopped, skew_lost, apps, horizon>>

tracker == <<activity_duration, current_session, session_start_time,
             overall_start_time, previous_time>>

store == <<conn_open, db, pending>>

locals == <<current_time, app_name, window_title, url, rlist, user_input,
            top_activities, display_session, elapsed_time_overall,
            display_elapsed, waited>>

history == <<recorded, reset_time, failed_ticks, sessions_started, stopped,
             skew_lost>>

environment == <<apps, horizon>>

\* ActivityTracker.__init__, and start_tracking up to its loop.
Created ==
    /\ pc = "tick"
    /\ overall_start_time = 0
    /\ previous_time \in 0..MaxSkew
    /\ clock = previous_time
    /\ conn_open = TRUE
    /\ db = <<>>
    /\ pending = <<>>
    /\ activity_duration = <<>>
    /\ current_session = None
    /\ session_start_time = NoTime
    /\ current_time = 0
    /\ app_name = None
    /\ window_title = None
    /\ url = None
    /\ rlist = FALSE
    /\ user_input = None
    /\ top_activities = <<>>
    /\ display_session = None
    /\ elapsed_time_overall = 0
    /\ display_elapsed = <<>>
    /\ waited = 0
    /\ exit_cause = "running"
    /\ recorded = 0
    /\ reset_time = previous_time
    /\ failed_ticks = 0
    /\ sessions_started = 0
    /\ stopped = FALSE
    /\ skew_lost = 0

\* A tracker just created, on a machine where any of ActiveApps can be
\* frontmost, observed until MaxTime.
Init ==
    /\ Created
    /\ apps = ActiveApps
    /\ horizon = MaxTime

\* A mutant of CloseStore: the loop ends and leaves the connection open.
CloseStore_leak(cause) ==
    /\ conn_open' = conn_open
    /\ pending' = <<>>
    /\ db' = db
    /\ pc' = "done"
    /\ exit_cause' = cause

\* The finally clause: self.conn.close().  Rows not committed are lost.
CloseStore(cause) ==
    /\ conn_open' = FALSE
    /\ pending' = <<>>
    /\ db' = db
    /\ pc' = "done"
    /\ exit_cause' = cause

\* time.strftime('%Y-%m-%d %H:%M:%S'): the time in whole seconds.
strftime(t) == (t * 3) \div 10

\* The int(time.time() - start) of lines 144 and 157: whole seconds.
elapsed(now, start) == ((now - start) * 3) \div 10

\* A mutant of should_insert: the row is written whatever the probe gave.
should_insert_always(app) == TRUE

\* Line 147: if app_name.
should_insert(app) == Truthy(app)

\* Lines 143-147: the timestamp, then the probe.
Probe ==
    /\ pc = "tick"
    /\ \E app \in apps \cup {None}, d \in 0..MaxProbeDelay :
         \E result \in ScriptOutputs(app) :
           LET info == get_active_window_info(app, result)
           IN  /\ clock + d <= horizon
               /\ clock' = clock + d
               /\ current_time' = strftime(clock)
               /\ elapsed_time_overall' = elapsed(clock, overall_start_time)
               /\ app_name' = info[1]
               /\ window_title' = info[2]
               /\ url' = info[3]
               /\ pc' = IF should_insert(info[1]) THEN "insert" ELSE "render"
               /\ failed_ticks' = IF Truthy(info[1]) THEN failed_ticks ELSE failed_ticks + 1
    /\ UNCHANGED <<tracker, store, rlist, user_input, top_activities,
                   display_session, display_elapsed, waited, exit_cause, recorded,
                   reset_time, sessions_started, stopped, skew_lost, environment>>

\* The row insert_activity writes.
Sample ==
    [timestamp |-> current_time, app_name |-> app_name,
     window_title |-> window_title, url |-> url, session |-> current_session]

\* insert_activity, lines 103-107: cursor.execute(INSERT ...).
InsertExecute ==
    /\ pc = "insert"
    /\ pending' = Append(pending, Sample)
    /\ pc' = "commit"
    /\ UNCHANGED <<clock, conn_open, db, tracker, locals, exit_cause, history,
                   environment>>

\* insert_activity, line 108: self.conn.commit().
InsertCommit ==
    /\ pc = "commit"
    /\ db' = db \o pending
    /\ pending' = <<>>
    /\ pc' = "update"
    /\ UNCHANGED <<clock, conn_open, tracker, locals, exit_cause, history,
                   environment>>

\* execute or commit raises sqlite3.Error: nothing in start_tracking catches
\* it, so it leaves the loop through the finally clause.
StoreError ==
    /\ pc \in {"insert", "commit"}
    /\ CloseStore("store_error")
    /\ UNCHANGED <<clock, tracker, locals, history, environment>>

\* insert_activity, lines 110-114: the delta since the previous sample goes to
\* the sample's key, and the previous-sample time moves to now.  Nothing
\* happens when the key is empty or None.
UpdateDuration ==
    /\ pc = "update"
    /\ LET key == activity_key(url, app_name)
       IN  IF Truthy(key)
           THEN \E e \in 0..MaxSkew :
                  /\ clock + e <= horizon
                  /\ activity_duration' =
                        record_duration(activity_duration, key, clock - previous_time)
                  /\ recorded' = recorded + (clock - previous_time)
                  /\ previous_time' = clock + e
                  /\ clock' = clock + e
                  /\ skew_lost' = skew_lost + e
           ELSE UNCHANGED <<activity_duration, recorded, previous_time, clock,
                            skew_lost>>
    /\ pc' = "render"
    /\ UNCHANGED <<store, current_session, session_start_time, overall_start_time,
                   locals, exit_cause, reset_time, failed_ticks, sessions_started,
                   stopped, environment>>

\* Lines 150-171: the console shows the session, when there is one, and the
\* top activities.
Render ==
    /\ pc = "render"
    /\ display_session' = IF Truthy(current_session) THEN current_session ELSE None
    /\ display_elapsed' = format_elapsed_time(elapsed_time_overall)
    /\ top_activities' = calculate_top_activities(activity_duration)
    /\ pc' = "select"
    /\ UNCHANGED <<clock, store, tracker, current_time, app_name, window_title,
                   url, rlist, user_input, elapsed_time_overall, waited,
                   exit_cause, history, environment>>

\* A mutant of WaitTimeout: a select without a timeout, which only a line
\* ends.
WaitTimeout_blocking ==
    /\ pc = "select"
    /\ FALSE
    /\ UNCHANGED vars

\* Line 174: select returns an empty rlist after its timeout.
WaitTimeout ==
    /\ pc = "select"
    /\ clock + SelectTimeout <= horizon
    /\ clock' = clock + SelectTimeout
    /\ waited' = SelectTimeout
    /\ rlist' = FALSE
    /\ pc' = "sleep"
    /\ UNCHANGED <<store, tracker, current_time, app_name, window_title, url,
                   user_input, top_activities, display_session,
                   elapsed_time_overall, display_elapsed, exit_cause, history,
                   environment>>

\* Lines 174-176: a line arrives w units into the wait and is read.
ReadLine(w, line) ==
    /\ pc = "select"
    /\ clock + w <= horizon
    /\ clock' = clock + w
    /\ waited' = w
    /\ rlist' = TRUE
    /\ user_input' = Lower(Strip(line))

is_new(cmd) == cmd = <<"n">>

\* A mutant of is_stop: every line that is not 'n' or 'q' stops the session.
is_stop_or_unknown(cmd) == cmd # <<"q">>

is_stop(cmd) == cmd = <<"s">>

is_quit(cmd) == cmd = <<"q">>

\* Lines 177-178: 'n' calls start_new_session, which waits for the label.
CmdNew ==
    /\ \E w \in 0..SelectTimeout, line \in InputLines :
         /\ ReadLine(w, line)
         /\ is_new(user_input')
    /\ pc' = "label"
    /\ UNCHANGED <<store, tracker, current_time, app_name, window_title, url,
                   top_activities, display_session, elapsed_time_overall,
                   display_elapsed, exit_cause, history, environment>>

\* stop_session, lines 201-208.
stop_session ==
    IF Truthy(current_session)
    THEN /\ current_session' = None
         /\ session_start_time' = NoTime
    ELSE UNCHANGED <<current_session, session_start_time>>

\* Lines 179-180: 's'.
CmdStop ==
    /\ \E w \in 0..SelectTimeout, line \in InputLines :
         /\ ReadLine(w, line)
         /\ ~is_new(user_input')
         /\ is_stop(user_input')
    /\ stop_session
    /\ stopped' = (sessions_started > 0)
    /\ pc' = "sleep"
    /\ UNCHANGED <<store, activity_duration, overall_start_time, previous_time,
                   current_time, app_name, window_title, url, top_activities,
                   display_session, elapsed_time_overall, display_elapsed,
                   exit_cause, recorded, reset_time, failed_ticks,
                   sessions_started, skew_lost, environment>>

\* A mutant of QuitLoop: 'q' is read and the loop goes on.
QuitLoop_continue ==
    /\ pc' = "sleep"
    /\ UNCHANGED <<store, exit_cause>>

\* Line 182: break, and the finally clause after it.
QuitLoop == CloseStore("quit")

\* Lines 181-182: 'q'.
CmdQuit ==
    /\ \E w \in 0..SelectTimeout, line \in InputLines :
         /\ ReadLine(w, line)
         /\ ~is_new(user_input')
         /\ ~is_stop(user_input')
         /\ is_quit(user_input')
    /\ QuitLoop
    /\ UNCHANGED <<tracker, current_time, app_name, window_title, url,
                   top_activities, display_session, elapsed_time_overall,
                   display_elapsed, history, environment>>

\* Lines 183-184: anything else prints "Invalid command".
CmdInvalid ==
    /\ \E w \in 0..SelectTimeout, line \in InputLines :
         /\ ReadLine(w, line)
         /\ ~is_new(user_input')
         /\ ~is_stop(user_input')
         /\ ~is_quit(user_input')
    /\ pc' = "sleep"
    /\ UNCHANGED <<store, tracker, current_time, app_name, window_title, url,
                   top_activities, display_session, elapsed_time_overall,
                   display_elapsed, exit_cause, history, environment>>

\* A mutant of session_anchor: the previous-sample time is left as it was.
session_anchor_stale(previous, now) == previous

\* Line 196: self.previous_time = time.time().
session_anchor(previous, now) == now

\* A mutant of session_start: a session that replaces another keeps the
\* start time of the one it replaces.
session_start_kept(start, now) == IF start = NoTime THEN now ELSE start

\* Line 195: self.session_start_time = time.time().
session_start(start, now) == now

\* A mutant of clear: the aggregate is left as it was.
clear_nothing(durations) == durations

\* Line 199: self.activity_duration.clear().
clear(durations) == <<>>

\* start_new_session, lines 194-199: the label arrives after d units; the
\* two clock reads are e units apart.
EnterLabel ==
    /\ pc = "label"
    /\ \E label \in Labels, d \in 0..MaxLabelWait, e \in 0..MaxSkew :
         /\ clock + d + e <= horizon
         /\ current_session' = label
         /\ session_start_time' = session_start(session_start_time, clock + d)
         /\ previous_time' = session_anchor(previous_time, clock + d + e)
         /\ clock' = clock + d + e
         /\ reset_time' = clock + d
         /\ skew_lost' = e
    /\ activity_duration' = clear(activity_duration)
    /\ recorded' = 0
    /\ sessions_started' = sessions_started + 1
    /\ stopped' = FALSE
    /\ pc' = "sleep"
    /\ UNCHANGED <<store, overall_start_time, locals, exit_cause, failed_ticks,
                   environment>>

\* input() raises EOFError at the end of the input: nothing catches it.
LabelEOF ==
    /\ pc = "label"
    /\ CloseStore("input_error")
    /\ UNCHANGED <<clock, tracker, locals, history, environment>>

\* Line 186: time.sleep(0.9), and back to line 142.  The iteration's locals
\* are dead from here on (the next iteration assigns each before it reads
\* it), and the model forgets them.
Sleep ==
    /\ pc = "sleep"
    /\ clock + SleepTime <= horizon
    /\ clock' = clock + SleepTime
    /\ pc' = "tick"
    /\ current_time' = 0
    /\ elapsed_time_overall' = 0
    /\ waited' = 0
    /\ app_name' = None
    /\ window_title' = None
    /\ url' = None
    /\ rlist' = FALSE
    /\ user_input' = None
    /\ UNCHANGED <<store, tracker, top_activities, display_session,
                   display_elapsed, exit_cause, history, environment>>

\* Lines 187-190: KeyboardInterrupt, raised wherever the loop is.
Interrupt ==
    /\ pc # "done"
    /\ CloseStore("interrupt")
    /\ UNCHANGED <<clock, tracker, locals, history, environment>>

Next ==
    \/ Probe
    \/ InsertExecute
    \/ InsertCommit
    \/ StoreError
    \/ UpdateDuration
    \/ Render
    \/ WaitTimeout
    \/ CmdNew
    \/ CmdStop
    \/ CmdQuit
    \/ CmdInvalid
    \/ EnterLabel
    \/ LabelEOF
    \/ Sleep
    \/ Interrupt

Spec == Init /\ [][Next]_vars

\* ------------------------------------------- the top-5 query on its own
\* The most keys an aggregate drawn for the query holds.
MaxKeys == 6
\* The longest duration of a key of such an aggregate, in units.
MaxDuration == 2

\* The keys, in the order the aggregate met them.
KeyNames ==
    <<<<"Terminal">>, <<"example", ".", "com">>, <<"Finder">>, <<"Mail">>,
      <<"Notes">>, <<"Music">>, <<"Preview">>, <<"Maps">>>>

\* The aggregates of n keys: every choice of a duration for each key.
AggregatesOf(n) ==
    {[i \in 1..n |-> [key |-> KeyNames[i], duration |-> f[i]]] :
        f \in [1..n -> 0..MaxDuration]}

\* A tracker about to render, with any aggregate.
InitTop ==
    /\ pc = "render"
    /\ \E n \in 0..MaxKeys : activity_duration \in AggregatesOf(n)
    /\ overall_start_time = 0
    /\ previous_time = 0
    /\ clock = 0
    /\ conn_open = TRUE
    /\ db = <<>>
    /\ pending = <<>>
    /\ current_session = None
    /\ session_start_time = NoTime
    /\ current_time = 0
    /\ app_name = None
    /\ window_title = None
    /\ url = None
    /\ rlist = FALSE
    /\ user_input = None
    /\ top_activities = <<>>
    /\ display_session = None
    /\ elapsed_time_overall = 0
    /\ display_elapsed = <<>>
    /\ waited = 0
    /\ exit_cause = "running"
    /\ recorded = SumDurations(activity_duration)
    /\ reset_time = 0
    /\ failed_ticks = 0
    /\ sessions_started = 0
    /\ stopped = FALSE
    /\ skew_lost = 0
    /\ apps = ActiveApps
    /\ horizon = MaxTime

NextTop == Render

SpecTop == InitTop /\ [][NextTop]_vars

\* ------------------------------------------------------------------ claims
\* A command line has just been read and was cmd.
JustRead(cmd) == rlist /\ user_input = cmd

\* C1: the durations of the aggregate add up to the deltas that successful
\* ticks recorded since the last reset (the tracker's creation or the latest
\* session start), and right after a session start the sum is zero.
C1_SumIsRecordedDeltas ==
    /\ SumDurations(activity_duration) = recorded
    /\ (pc = "sleep" /\ JustRead(<<"n">>)) => SumDurations(activity_duration) = 0

\* C1's case: after a session start, two ticks have recorded their deltas
\* under two keys.
C1_Witness ==
    /\ sessions_started > 0
    /\ Len(activity_duration) = 2
    /\ \A i \in 1..2 : activity_duration[i].duration > 0
    /\ SumDurations(activity_duration) = recorded

\* C2: a tick whose probe gives no application name persists no sample and
\* changes no total, and the loop goes on to render and to the next ticks.
C2_FailedProbeSkipsTheSample ==
    [][/\ (~Truthy(app_name') /\ pc # "label")
            => /\ db' = db
               /\ pending' = pending
               /\ activity_duration' = activity_duration
               /\ previous_time' = previous_time
       /\ (pc = "tick" /\ pc' # "done" /\ ~Truthy(app_name'))
            => /\ pc' = "render"
               /\ conn_open'
               /\ exit_cause' = "running"]_vars

\* C2's case: after a tick whose probe failed, a later tick has persisted its
\* sample and added its delta.
C2_Witness ==
    /\ failed_ticks > 0
    /\ pc = "render"
    /\ Truthy(app_name)
    /\ db # <<>>
    /\ db[Len(db)].app_name = app_name
    /\ recorded > 0

\* C3: a storage failure while a sample is appended does not end the loop.
C3_StoreFailureIsNotFatal == ~(pc = "done" /\ exit_cause = "store_error")

\* C4: however the loop ends, the connection is closed when it returns, no
\* row is committed through a closed connection, and a closed connection
\* stays closed.
C4_StoreClosedOnEveryExit ==
    /\ [](pc = "done" => ~conn_open)
    /\ [][/\ db' # db => (conn_open /\ conn_open')
          /\ ~conn_open => (~conn_open' /\ db' = db)]_vars

\* C4's case: an interrupt arrived while the session label was being typed,
\* after a sample had been persisted.
C4_Witness ==
    /\ pc = "done"
    /\ exit_cause = "interrupt"
    /\ JustRead(<<"n">>)
    /\ sessions_started = 0
    /\ db # <<>>
    /\ ~conn_open

\* C5: 's' with a session (a label and a start time) makes both None and
\* leaves the totals and the previous-sample time alone; 's' with no session
\* changes nothing.
C5_StopEndsTheSession ==
    [][(pc = "select" /\ rlist' /\ user_input' = <<"s">>)
          => IF current_session # None
             THEN /\ current_session' = None
                  /\ session_start_time' = NoTime
                  /\ activity_duration' = activity_duration
                  /\ previous_time' = previous_time
             ELSE UNCHANGED tracker]_vars

\* C6: a session start empties the aggregate and moves the previous-sample
\* time to the moment the start completes, so the durations never add up to
\* more than the time since the last reset.
C6_NoTimeFromBeforeTheStart ==
    /\ SumDurations(activity_duration) <= clock - reset_time
    /\ previous_time >= reset_time
    /\ (pc = "sleep" /\ JustRead(<<"n">>))
          => /\ activity_duration = <<>>
             /\ previous_time = clock
             /\ previous_time >= session_start_time

\* C6's case: a session started some time after the previous sample, and a
\* later tick has recorded its delta.
C6_Witness ==
    /\ sessions_started > 0
    /\ db # <<>>
    /\ reset_time > overall_start_time + MaxSkew
    /\ recorded > 0
    /\ recorded <= clock - reset_time

\* C7: whatever label is typed at 'n', the empty one too, the console shows
\* the session as the active one, and an 's' after it leaves no session.
C7_AnyLabelStartsAnActiveSession ==
    /\ (pc = "select" /\ current_session # None) => display_session = current_session
    /\ (pc = "sleep" /\ JustRead(<<"s">>))
          => (current_session = None /\ session_start_time = NoTime)

\* The numerators of the percentages of top, added up.
RECURSIVE SumNum(_)
SumNum(top) ==
    IF top = <<>> THEN 0 ELSE Head(top).percentage.num + SumNum(Tail(top))

\* The total the aggregate holds for key.
DurationOf(ad, key) == ad[KeyIndex(ad, key)].duration

\* The percentages of top, all fractions of den, add up to exactly 100.
\* (No percentages add up to 0.)
SumsTo100(top, den) == top # <<>> /\ SumNum(top) = 100 * den

\* What C8 says of the result top for the aggregate ad, but for the case of
\* five keys or fewer: at most 5 entries, each a key of the aggregate with
\* its share of the sum of all totals, in non-increasing order of total,
\* adding up to at most 100, and none when the sum of all totals is zero.
TopIsRanked(ad, top) ==
    LET total == SumDurations(ad)
    IN  /\ Len(top) <= 5
        /\ \A i \in 1..Len(top) :
              /\ KeyIndex(ad, top[i].activity) # 0
              /\ top[i].percentage.den = total
              /\ top[i].percentage.num = DurationOf(ad, top[i].activity) * 100
        /\ \A i, j \in 1..Len(top) :
              i < j => /\ top[i].activity # top[j].activity
                       /\ DurationOf(ad, top[i].activity) >= DurationOf(ad, top[j].activity)
        /\ SumNum(top) <= 100 * total
        /\ total = 0 => top = <<>>

\* C8 as stated: the result is ranked, and its percentages add up to exactly
\* 100 whenever the aggregate holds 5 keys or fewer.
C8_TopFiveAsStated ==
    pc = "select"
      => /\ TopIsRanked(activity_duration, top_activities)
         /\ Len(activity_duration) <= 5
               => SumsTo100(top_activities, SumDurations(activity_duration))

\* C8, amended: the result is ranked, and its percentages add up to exactly
\* 100 whenever the aggregate holds 5 keys or fewer and the sum of all totals
\* is not zero.
C8_TopFive ==
    pc = "select"
      => /\ TopIsRanked(activity_duration, top_activities)
         /\ (Len(activity_duration) <= 5 /\ SumDurations(activity_duration) # 0)
               => SumsTo100(top_activities, SumDurations(activity_duration))

\* C8's case: the query has answered for an aggregate of more than 5 keys
\* with a total outside the result, so the 5 percentages add up to less than
\* 100.
C8_Witness ==
    /\ pc = "select"
    /\ Len(activity_duration) > 5
    /\ Len(top_activities) = 5
    /\ SumNum(top_activities) < 100 * SumDurations(activity_duration)

\* C9: a line that is not n, s or q once stripped and lower-cased changes
\* nothing of the tracker or the store, and the loop goes on to its sleep.
C9_InvalidCommandChangesNothing ==
    [][(/\ pc = "select"
        /\ rlist'
        /\ user_input' \notin {<<"n">>, <<"s">>, <<"q">>})
          => /\ UNCHANGED tracker
             /\ UNCHANGED store
             /\ pc' = "sleep"
             /\ exit_cause' = "running"]_vars

\* C9's case: an unknown line has been read while a session is on and the
\* aggregate holds a total.
C9_Witness ==
    /\ pc = "sleep"
    /\ JustRead(<<"x">>)
    /\ Truthy(current_session)
    /\ recorded > 0

\* C10: once 'q' is read the loop is over: it is at its end with the store
\* closed, and nothing of the store or the tracker changes any more.
C10_QuitEndsTheLoop ==
    /\ [](JustRead(<<"q">>) => (pc = "done" /\ exit_cause = "quit" /\ ~conn_open))
    /\ [][pc = "done" => (pc' = "done" /\ UNCHANGED <<tracker, store>>)]_vars

\* C10's case: 'q' has been read after samples were persisted.
C10_Witness ==
    /\ JustRead(<<"q">>)
    /\ pc = "done"
    /\ db # <<>>
    /\ recorded > 0

\* ------------------------------------------------ the end-to-end scenario
\* App A and App B: two applications that are not browsers.
ScenarioApps == {<<"Terminal">>, <<"Finder">>}

\* The ticks the scenario takes after its session start.
ScenarioTicks == 3

\* A tracker just created, on a machine where App A or App B is frontmost,
\* observed for ScenarioTicks ticks more than MaxTime.
InitScenario ==
    /\ Created
    /\ apps = ScenarioApps
    /\ horizon = MaxTime + ScenarioTicks * SleepTime

\* The loop when no probe fails, the store works, and one session is
\* started with 'n'; once it has started the two paired clock reads and the
\* probe take no time and a line that is no command is there when select
\* looks, so that the samples are one sleep apart.
NextScenario ==
    \/ Probe /\ Truthy(app_name') /\ (sessions_started > 0 => clock' = clock)
    \/ InsertExecute
    \/ InsertCommit
    \/ UpdateDuration /\ (sessions_started > 0 => clock' = clock)
    \/ Render
    \/ CmdNew /\ sessions_started = 0
    \/ CmdInvalid /\ sessions_started > 0 /\ clock' = clock
    \/ EnterLabel /\ previous_time' = session_start_time'
    \/ Sleep

SpecScenario == InitScenario /\ [][NextScenario]_vars

\* The applications of the rows that carry a session label, in their order.
RECURSIVE SessionApps(_)
SessionApps(rows) ==
    IF rows = <<>> THEN <<>>
    ELSE IF Head(rows).session # None
         THEN <<Head(rows).app_name>> \o SessionApps(Tail(rows))
         ELSE SessionApps(Tail(rows))

\* How many entries of s are x.
RECURSIVE Count(_, _)
Count(s, x) ==
    IF s = <<>> THEN 0
    ELSE (IF Head(s) = x THEN 1 ELSE 0) + Count(Tail(s), x)

\* The total the aggregate holds for key, 0 when it has none.
TotalOf(ad, key) == IF KeyIndex(ad, key) = 0 THEN 0 ELSE DurationOf(ad, key)

\* C11: with samples one tick interval apart, the first one tick interval
\* after the session start, every key's total is one interval for each
\* sample of that key (the time between two samples goes to the key of the
\* later one); after App A, App A, App B the aggregate holds App A = 2
\* intervals and App B = 1, and the top-5 query gives App A two thirds and
\* App B one third.
C11_EndToEnd ==
    (sessions_started = 1 /\ pc = "select")
      => LET seen == SessionApps(db)
         IN  /\ \A app \in ScenarioApps :
                  TotalOf(activity_duration, app) = Count(seen, app) * SleepTime
             /\ \A a, b \in ScenarioApps :
                  seen = <<a, a, b>> /\ a # b
                    => /\ activity_duration =
                            <<[key |-> a, duration |-> 2 * SleepTime],
                              [key |-> b, duration |-> SleepTime]>>
                       /\ Len(top_activities) = 2
                       /\ top_activities[1].activity = a
                       /\ top_activities[2].activity = b
                       /\ 3 * top_activities[1].percentage.num
                            = 200 * top_activities[1].percentage.den
                       /\ 3 * top_activities[2].percentage.num
                            = 100 * top_activities[2].percentage.den

\* C11's case: the third tick after the session start has shown the top
\* activities, after samples of App A, App A and App B.
C11_Witness ==
    /\ sessions_started = 1
    /\ pc = "select"
    /\ SessionApps(db) = <<<<"Terminal">>, <<"Terminal">>, <<"Finder">>>>
    /\ Len(top_activities) = 2
    /\ SumDurations(activity_duration) = 3 * SleepTime

\* ------------------------------------------------ the key of one sample
\* The most "www." labels a drawn URL begins its host with.
MaxWww == 2

\* k times "www.".
RECURSIVE Www(_)
Www(k) == IF k = 0 THEN <<>> ELSE <<"www", ".">> \o Www(k - 1)

UrlHosts == {<<"example", ".", "com">>, <<"localhost">>}

\* No port, or one.
UrlPorts == {<<>>, <<":", "8080">>}

UrlPaths == {<<>>, <<"/", "page">>, <<"?", "q">>}

\* The URL of a host with k "www." before it, a port and a path.
UrlOf(k, host, port, path) ==
    <<"https", ":", "/", "/">> \o Www(k) \o host \o port \o path

\* The URLs a browser's front tab can have; the empty text is a tab that
\* gives none.
TabUrls ==
    {UrlOf(k, host, port, path) :
        k \in 0..MaxWww, host \in UrlHosts, port \in UrlPorts, path \in UrlPaths}
      \cup {UrlBlank, <<>>}

\* A tracker whose tick has persisted its sample and is about to add the
\* delta: a browser with any of the URLs, or an application without one.
InitKey ==
    /\ pc = "update"
    /\ apps = ActiveApps
    /\ app_name \in apps
    /\ window_title = <<"T">>
    /\ url \in IF app_name \in Browsers THEN TabUrls ELSE {None}
    /\ clock \in 0..MaxProbeDelay
    /\ horizon = MaxTime
    /\ overall_start_time = 0
    /\ previous_time = 0
    /\ current_time = 0
    /\ elapsed_time_overall = 0
    /\ conn_open = TRUE
    /\ db = <<[timestamp |-> 0, app_name |-> app_name, window_title |-> window_title,
               url |-> url, session |-> None]>>
    /\ pending = <<>>
    /\ activity_duration = <<>>
    /\ current_session = None
    /\ session_start_time = NoTime
    /\ rlist = FALSE
    /\ user_input = None
    /\ top_activities = <<>>
    /\ display_session = None
    /\ display_elapsed = <<>>
    /\ waited = 0
    /\ exit_cause = "running"
    /\ recorded = 0
    /\ reset_time = 0
    /\ failed_ticks = 0
    /\ sessions_started = 0
    /\ stopped = FALSE
    /\ skew_lost = 0

NextKey == UpdateDuration

SpecKey == InitKey /\ [][NextKey]_vars

\* C12: the key the aggregate holds after a sample's delta is added is, for
\* a sample with a URL, the URL's host with one leading "www." removed, and
\* for a sample without a URL the application name.
C12_KeyIsHostOrApp ==
    (pc = "render" /\ activity_duration # <<>>)
      => LET key == activity_duration[1].key
         IN  IF Truthy(url)
             THEN \A k \in 0..MaxWww, host \in UrlHosts, port \in UrlPorts,
                     path \in UrlPaths :
                    url = UrlOf(k, host, port, path)
                      => key = Www(IF k = 0 THEN 0 ELSE k - 1) \o host
             ELSE key = app_name

\* ------------------------------------------- format_elapsed_time on its own
\* The whole seconds drawn around each unit's multiples reach MaxOffset past
\* and before them.
MaxOffset == 3

\* The multiples of a unit the drawn seconds lie around.
UnitMarks == {0, 60, 120, 3600, 3660, 7200, 86400, 86460, 90000, 90060, 172800}

\* Whole seconds, non-negative: around every mark, and the claim's 65 and
\* 90061.
FormatInputs ==
    {n \in {mark + o : mark \in UnitMarks, o \in (0 - MaxOffset)..MaxOffset} : n >= 0}
      \cup {65, 90061}

\* A tracker about to render, any whole number of seconds after its start.
InitFormat ==
    /\ pc = "render"
    /\ elapsed_time_overall \in FormatInputs
    /\ apps = ActiveApps
    /\ horizon = MaxTime
    /\ app_name = None
    /\ window_title = None
    /\ url = None
    /\ clock = 0
    /\ overall_start_time = 0
    /\ previous_time = 0
    /\ current_time = 0
    /\ conn_open = TRUE
    /\ db = <<>>
    /\ pending = <<>>
    /\ activity_duration = <<>>
    /\ current_session = None
    /\ session_start_time = NoTime
    /\ rlist = FALSE
    /\ user_input = None
    /\ top_activities = <<>>
    /\ display_session = None
    /\ display_elapsed = <<>>
    /\ waited = 0
    /\ exit_cause = "running"
    /\ recorded = 0
    /\ reset_time = 0
    /\ failed_ticks = 0
    /\ sessions_started = 0
    /\ stopped = FALSE
    /\ skew_lost = 0

NextFormat == Render

SpecFormat == InitFormat /\ [][NextFormat]_vars

\* The seconds one unit stands for.
SecondsOf(unit) ==
    CASE unit = "d" -> 86400
      [] unit = "h" -> 3600
      [] unit = "m" -> 60
      [] unit = "s" -> 1

\* The place of a unit in the order days, hours, minutes, seconds.
RankOf(unit) ==
    CASE unit = "d" -> 1
      [] unit = "h" -> 2
      [] unit = "m" -> 3
      [] unit = "s" -> 4

\* The seconds the parts of a text stand for together.
RECURSIVE ValueOf(_)
ValueOf(parts) ==
    IF parts = <<>> THEN 0
    ELSE Head(parts)[1] * SecondsOf(Head(parts)[2]) + ValueOf(Tail(parts))

\* C13: the text shown for a whole number of seconds lists day, hour,
\* minute and second counts in that order and stands for exactly that many
\* seconds, with fewer than 24 hours, 60 minutes and 60 seconds; a day, hour
\* or minute is there exactly when its count is not zero, and the seconds are
\* always there, last.  0 gives "0s", 65 "1m 5s", 90061 "1d 1h 1m 1s".
C13_UnitsShownWhenNotZero ==
    pc = "select"
      => LET text == display_elapsed
             n == Len(text)
         IN  /\ n >= 1
             /\ text[n][2] = "s"
             /\ \A i \in 1..n : text[i][2] \in {"d", "h", "m", "s"}
             /\ \A i, j \in 1..n : i < j => RankOf(text[i][2]) < RankOf(text[j][2])
             /\ \A i \in 1..(n - 1) : text[i][1] > 0
             /\ \A i \in 1..n :
                  /\ text[i][1] >= 0
                  /\ text[i][2] = "h" => text[i][1] < 24
                  /\ text[i][2] \in {"m", "s"} => text[i][1] < 60
             /\ ValueOf(text) = elapsed_time_overall
             /\ elapsed_time_overall = 0 => text = <<<<0, "s">>>>
             /\ elapsed_time_overall = 65 => text = <<<<1, "m">>, <<5, "s">>>>
             /\ elapsed_time_overall = 90061
                  => text = <<<<1, "d">>, <<1, "h">>, <<1, "m">>, <<1, "s">>>>

\* C13's case: a time of whole days and seconds, with no hours and no
\* minutes, is shown as its days and its seconds.
C13_Witness ==
    /\ pc = "select"
    /\ elapsed_time_overall = 86401
    /\ display_elapsed = <<<<1, "d">>, <<1, "s">>>>

\* ------------------------------------------------------ the claims, C14 on
\* The step of insert_activity after its commit (lines 110-114) credits the
\* delta since the previous sample to the sample's key, and moves the
\* previous-sample time to now.
Credited ==
    LET key == activity_key(url, app_name)
    IN  /\ KeyIndex(activity_duration', key) # 0
        /\ TotalOf(activity_duration', key)
             = TotalOf(activity_duration, key) + (clock - previous_time)
        /\ \A other \in {activity_duration[i].key : i \in 1..Len(activity_duration)} :
             other # key => TotalOf(activity_duration', other)
                               = TotalOf(activity_duration, other)
        /\ previous_time' = clock'

\* C14 as stated: every tick that persists a sample credits its delta and
\* moves the previous-sample time.
C14_EverySampleIsCredited ==
    [][(pc = "update" /\ pc' = "render") => Credited]_vars

\* C14, amended: every tick that persists a sample with a key that is not
\* empty credits its delta and moves the previous-sample time; a tick whose
\* sample has an empty key leaves the aggregate and the previous-sample time
\* as they were.
C14_KeyedSampleIsCredited ==
    [][(pc = "update" /\ pc' = "render")
         => IF Truthy(activity_key(url, app_name))
            THEN Credited
            ELSE UNCHANGED <<activity_duration, previous_time>>]_vars

\* C14's case: a second sample of one application has been credited, on top
\* of the total its first sample left.
C14_Witness ==
    /\ pc = "render"
    /\ Len(db) = 2
    /\ db[1].app_name = <<"Terminal">>
    /\ db[2].app_name = <<"Terminal">>
    /\ previous_time = clock
    /\ TotalOf(activity_duration, <<"Terminal">>) > SleepTime

\* C15 as stated, for a tracker that has started no session (its last reset
\* is its creation, and every failed tick came after it): when a tick has
\* credited its sample, the sum of all totals is smaller than the time since
\* the reset by the time of the failed ticks, each of which took one sleep
\* at least.
C15_FailedTicksLeaveAGap ==
    (/\ sessions_started = 0
     /\ pc = "render"
     /\ Truthy(activity_key(url, app_name))
     /\ failed_ticks > 0)
      => SumDurations(activity_duration) + failed_ticks * SleepTime
            <= clock - reset_time

\* C15, amended: a tick whose probe failed leaves the aggregate and the
\* previous-sample time as they were, so the next credited sample's delta
\* covers it: at every moment the sum of all totals is the time from the last
\* reset to the latest credited sample, less only the time between the
\* paired clock reads, whatever ticks failed in between.
C15_FailedTicksLeaveNoGap ==
    /\ [](SumDurations(activity_duration) + skew_lost = previous_time - reset_time)
    /\ [][(pc = "tick" /\ pc' = "render")
            => UNCHANGED <<activity_duration, previous_time>>]_vars

\* C15's case: the first tick failed and the second has credited its sample
\* with all the time since the tracker's creation.
C15_Witness ==
    /\ sessions_started = 0
    /\ pc = "render"
    /\ failed_ticks = 1
    /\ Len(db) = 1
    /\ Truthy(activity_key(url, app_name))
    /\ clock >= SleepTime
    /\ previous_time = clock
    /\ SumDurations(activity_duration) + skew_lost = clock - reset_time

\* C16: the step that completes a session start empties the aggregate, and
\* no other step removes a key of it or makes a total smaller.
C16_ClearedOnlyOnSessionStart ==
    [][IF pc = "label" /\ pc' = "sleep"
       THEN activity_duration' = <<>>
       ELSE \A i \in 1..Len(activity_duration) :
              /\ KeyIndex(activity_duration', activity_duration[i].key) # 0
              /\ TotalOf(activity_duration', activity_duration[i].key)
                   >= activity_duration[i].duration]_vars

\* C16's case: a session has started after a sample had put a key with a
\* total into the aggregate, and the aggregate is empty.
C16_Witness ==
    /\ pc = "sleep"
    /\ JustRead(<<"n">>)
    /\ sessions_started = 1
    /\ activity_duration = <<>>
    /\ Len(db) = 1
    /\ db[1].app_name = <<"Terminal">>
    /\ reset_time > overall_start_time + MaxSkew

\* C17: the store grows by one row, and only when a tick with an application
\* name commits it; a tick whose probe failed writes nothing; the rows
\* already there stay as they are; the row of a tick carries the tracker's
\* session label, and None from an 's' on until the next session start.
C17_OneSamplePerTick ==
    /\ [][db' # db => (pc = "commit" /\ Truthy(app_name)
                        /\ Len(db') = Len(db) + 1)]_vars
    /\ [][Len(db') >= Len(db) /\ SubSeq(db', 1, Len(db)) = db]_vars
    /\ [][(pc = "tick" /\ pc' = "render") => UNCHANGED <<db, pending>>]_vars
    /\ []((pc = "render" /\ Truthy(app_name))
            => (db # <<>> /\ db[Len(db)] = Sample))
    /\ []((pc = "render" /\ Truthy(app_name) /\ stopped)
            => (db # <<>> /\ db[Len(db)].session = None))

\* C18: the select wait of an iteration and the sleep after it take the
\* period of 0.9 s together: the sleep is what the wait left of it, and
\* nothing after a wait that ran to its timeout.
C18_WaitPlusSleepIsThePeriod ==
    [][(pc = "sleep" /\ pc' = "tick")
         => /\ waited + (clock' - clock) = SelectTimeout
            /\ ~rlist => clock' = clock]_vars

\* ----------------------------------------------------- the loop's progress
\* The loop with time passing: a select that can time out does, and a sleep
\* ends.  Nothing makes the user type, be it a command or a label.
SpecLive == Spec /\ WF_vars(WaitTimeout) /\ WF_vars(Sleep)

\* C19: from every input wait that the observation leaves the time to end,
\* the loop comes to its next tick, unless it is over or 'n' has it wait for
\* the label.
C19_InputWaitEnds ==
    (pc = "select" /\ clock + SelectTimeout + SleepTime <= horizon)
       ~> (pc \in {"tick", "label", "done"})

\* C19's case: no line came, the wait has ended at its timeout, and the
\* sleep before the next tick can run.
C19_Witness ==
    /\ pc = "sleep"
    /\ ~rlist
    /\ waited = SelectTimeout
    /\ clock + SleepTime <= horizon

\* C20: a label entered while the tracker has a session replaces that
\* session: the tracker then has one session, with its label, a start time
\* that is the moment of the entry and later than the replaced session's,
\* an empty aggregate and a previous-sample time that begins anew; the rows
\* persisted from then on carry the tracker's label.
C20_NewSessionReplacesTheOld ==
    /\ [][(pc = "label" /\ pc' = "sleep" /\ current_session # None)
            => /\ current_session' \in Labels
               /\ session_start_time' > session_start_time
               /\ session_start_time' >= clock
               /\ session_start_time' <= clock'
               /\ session_start_time' = reset_time'
               /\ previous_time' = clock'
               /\ activity_duration' = <<>>]_vars
    /\ []((sessions_started >= 2 /\ pc = "render" /\ Truthy(app_name))
            => db[Len(db)].session = current_session)

\* C20's case: a sample was persisted under the session "work", then 'n'
\* and a label have started a second session.
C20_Witness ==
    /\ sessions_started = 2
    /\ pc = "sleep"
    /\ JustRead(<<"n">>)
    /\ db # <<>>
    /\ db[Len(db)].session = <<"work">>
    /\ Truthy(activity_key(db[Len(db)].url, db[Len(db)].app_name))
    /\ current_session = <<"work">>
    /\ activity_duration = <<>>
    /\ session_start_time >= SleepTime

=============================================================================
